---- MODULE Spec2Model ----
(***************************************************************************)
(* A model of file_py.py: the symbolic permission compiler                 *)
(* (symbolic_to_octal), the size parser (human_to_bytes), the filtered     *)
(* directory listing (dir_ls), the temp stack (file_temp_push,             *)
(* file_temp_pop, cleanup_temp_files), path_filter and dir_copy.  Texts    *)
(* are sequences of one-character strings, so that splitting, stripping    *)
(* and regular-expression matching are computed on the characters as the   *)
(* code computes them.                                                     *)
(***************************************************************************)
EXTENDS Integers, Sequences, FiniteSets, TLC

VARIABLES
    symbolic,      \* symbolic_to_octal: the argument text
    operations,    \* symbolic_to_octal: the clauses the loop has not visited yet
    perm,          \* symbolic_to_octal: the accumulator
    perm_pc,       \* symbolic_to_octal: "call", "loop", "returned", "raised", "idle"
    perm_ret,      \* symbolic_to_octal: the returned mode, or the exception's name
    size_text,     \* human_to_bytes: the argument text
    size_pc,       \* human_to_bytes: "call", "returned", "raised", "idle"
    size_ret,      \* human_to_bytes: the returned byte count, or the exception's name
    ls_args,       \* dir_ls: all, recurse, type_filter, glob, regexp, invert, fail
    ls_root,       \* dir_ls: what the path is on the filesystem
    ls_fs,         \* dir_ls: the entries of the tree below the path
    ls_todo,       \* dir_ls: the entries the iterator has not yielded yet
    ls_results,    \* dir_ls: results
    ls_pc,         \* dir_ls: "call", "loop", "returned", "raised", "idle"
    ls_ret,        \* dir_ls: the returned list, or the exception and its cause
    ls_prev,       \* dir_ls: what the earlier call with these arguments ended with
    ls_call,       \* dir_ls: 1 in the first call, 2 in the repeated one
    temp_stack,    \* _temp_stack
    temp_disk,     \* what each path is on the filesystem
    temp_locked,   \* the paths whose deletion fails
    temp_pc,       \* "ready", "cleanup" (inside cleanup_temp_files), "idle"
    temp_ret,      \* the last call of the temp-stack functions and what it returned
    temp_start,    \* _temp_stack when cleanup_temp_files was entered
    temp_disk0,    \* the filesystem when cleanup_temp_files was entered
    temp_log,      \* what cleanup_temp_files did to each path it popped, in order
    pf_paths,      \* path_filter: paths
    pf_args,       \* path_filter: glob, regexp, invert
    pf_i,          \* path_filter: the number of paths the loop has visited
    pf_filtered,   \* path_filter: filtered
    pf_pc,         \* path_filter: "call", "loop", "returned", "idle"
    pf_ret,        \* path_filter: the returned list
    dc_args,       \* dir_copy: path, new_path, overwrite
    dc_fs,         \* dir_copy: the files and directories that exist
    dc_fs0,        \* dir_copy: the files and directories that existed at the call
    dc_pc,         \* dir_copy: "call", "checked", "copy", "returned", "raised", "idle"
    dc_ret         \* dir_copy: the returned path, or the exception's name

perm_vars == <<symbolic, operations, perm, perm_pc, perm_ret>>

size_vars == <<size_text, size_pc, size_ret>>

ls_vars == <<ls_args, ls_root, ls_fs, ls_todo, ls_results, ls_pc, ls_ret, ls_prev, ls_call>>

temp_vars == <<temp_stack, temp_disk, temp_locked, temp_pc, temp_ret,
               temp_start, temp_disk0, temp_log>>

pf_vars == <<pf_paths, pf_args, pf_i, pf_filtered, pf_pc, pf_ret>>

dc_vars == <<dc_args, dc_fs, dc_fs0, dc_pc, dc_ret>>

vars == <<perm_vars, size_vars, ls_vars, temp_vars, pf_vars, dc_vars>>

----------------------------------------------------------------------------
(* Bounds of the model.                                                    *)

\* The largest number of comma-separated clauses of a generated expression.
MaxClauses == 2

\* The largest number of clauses put before "u=r,g=r,o=r".
MaxPrefix == 1

\* The largest number of digits of a generated size.
MaxDigits == 2

\* The largest number of characters after the digits of a generated size.
MaxSuffix == 2

\* The largest number of entries of a generated directory tree.
MaxEntries == 3

\* The largest number of paths on the temp stack.
MaxStack == 3

\* The largest number of paths path_filter is called with.
MaxPaths == 2

----------------------------------------------------------------------------
(* Text helpers: what str.split(','), str.strip() and re.match do.         *)

\* The longest prefix of s whose characters all lie in S (a greedy X*).
RECURSIVE TakeWhile(_, _)
TakeWhile(s, S) ==
    IF s = <<>> \/ Head(s) \notin S THEN <<>>
    ELSE <<Head(s)>> \o TakeWhile(Tail(s), S)

DropN(s, n) == SubSeq(s, n + 1, Len(s))

RECURSIVE Reverse(_)
Reverse(s) == IF s = <<>> THEN <<>> ELSE Reverse(Tail(s)) \o <<Head(s)>>

Whitespace == {" "}

\* str.strip(): leading and trailing whitespace removed.
strip(s) ==
    LET lead == DropN(s, Len(TakeWhile(s, Whitespace)))
        back == Reverse(lead)
    IN  Reverse(DropN(back, Len(TakeWhile(back, Whitespace))))

\* str.split(','): one piece per comma plus one; the empty text gives <<"">>.
RECURSIVE split(_)
split(s) ==
    LET first == TakeWhile(s, {c \in {s[i] : i \in 1..Len(s)} : c # ","})
    IN  IF Len(first) = Len(s) THEN <<first>>
        ELSE <<first>> \o split(DropN(s, Len(first) + 1))

RECURSIVE Join(_)
Join(clauses) ==
    IF Len(clauses) = 0 THEN <<>>
    ELSE IF Len(clauses) = 1 THEN clauses[1]
    ELSE clauses[1] \o <<",">> \o Join(Tail(clauses))

----------------------------------------------------------------------------
(* Integer bit operations, as Python computes |, & and & ~ on ints >= 0.   *)

RECURSIVE BitAnd(_, _)
BitAnd(a, b) ==
    IF a = 0 \/ b = 0 THEN 0
    ELSE (a % 2) * (b % 2) + 2 * BitAnd(a \div 2, b \div 2)

BitOr(a, b) == a + b - BitAnd(a, b)

\* a & ~b
BitClear(a, b) == a - BitAnd(a, b)

----------------------------------------------------------------------------
(* symbolic_to_octal                                                       *)

S_IRUSR == 256
S_IWUSR == 128
S_IXUSR == 64
S_IRGRP == 32
S_IWGRP == 16
S_IXGRP == 8
S_IROTH == 4
S_IWOTH == 2
S_IXOTH == 1

WhoLetters == {"u", "g", "o", "a"}
ActionLetters == {"+", "=", "-"}
PermLetters == {"r", "w", "x"}

\* The order in which "for key in perm_bits[w]" visits the keys.
PermKeys == <<"r", "w", "x">>

perm_bits_a_with_sticky(w, p) ==
    CASE w = "u" -> (CASE p = "r" -> S_IRUSR [] p = "w" -> S_IWUSR [] p = "x" -> S_IXUSR)
      [] w = "g" -> (CASE p = "r" -> S_IRGRP [] p = "w" -> S_IWGRP [] p = "x" -> S_IXGRP)
      [] w = "o" -> (CASE p = "r" -> S_IROTH [] p = "w" -> S_IWOTH [] p = "x" -> S_IXOTH)
      [] w = "a" -> (CASE p = "r" -> BitOr(BitOr(S_IRUSR, S_IRGRP), S_IROTH)
                       [] p = "w" -> BitOr(BitOr(S_IWUSR, S_IWGRP), S_IWOTH)
                       [] p = "x" -> BitOr(BitOr(BitOr(S_IXUSR, S_IXGRP), S_IXOTH), 512))

perm_bits(w, p) ==
    CASE w = "u" -> (CASE p = "r" -> S_IRUSR [] p = "w" -> S_IWUSR [] p = "x" -> S_IXUSR)
      [] w = "g" -> (CASE p = "r" -> S_IRGRP [] p = "w" -> S_IWGRP [] p = "x" -> S_IXGRP)
      [] w = "o" -> (CASE p = "r" -> S_IROTH [] p = "w" -> S_IWOTH [] p = "x" -> S_IXOTH)
      [] w = "a" -> (CASE p = "r" -> BitOr(BitOr(S_IRUSR, S_IRGRP), S_IROTH)
                       [] p = "w" -> BitOr(BitOr(S_IWUSR, S_IWGRP), S_IWOTH)
                       [] p = "x" -> BitOr(BitOr(S_IXUSR, S_IXGRP), S_IXOTH))

\* re.search in place of re.match: the pattern may start at any offset.
RECURSIVE re_search_perm(_)
re_search_perm(op) ==
    LET who  == TakeWhile(op, WhoLetters)
        rest == DropN(op, Len(who))
    IN  IF rest # <<>> /\ rest[1] \in ActionLetters
        THEN [matched |-> TRUE,
              who     |-> who,
              action  |-> rest[1],
              perms   |-> TakeWhile(Tail(rest), PermLetters)]
        ELSE IF op = <<>>
        THEN [matched |-> FALSE, who |-> <<>>, action |-> "", perms |-> <<>>]
        ELSE re_search_perm(Tail(op))

\* re.match(r'([ugoa]*)([+=-])([rwx]*)', op): anchored at the start only;
\* matched is FALSE where re.match returns None.
re_match_perm(op) ==
    LET who  == TakeWhile(op, WhoLetters)
        rest == DropN(op, Len(who))
    IN  IF rest = <<>> \/ rest[1] \notin ActionLetters
        THEN [matched |-> FALSE, who |-> <<>>, action |-> "", perms |-> <<>>]
        ELSE [matched |-> TRUE,
              who     |-> who,
              action  |-> rest[1],
              perms   |-> TakeWhile(Tail(rest), PermLetters)]

\* "for key in perm_bits[w]: perm &= ~perm_bits[w][key]"
RECURSIVE reset_category(_, _, _)
reset_category(acc, w, keys) ==
    IF keys = <<>> THEN acc
    ELSE reset_category(BitClear(acc, perm_bits(w, Head(keys))), w, Tail(keys))

\* The body of the innermost loop, for one category letter and one
\* permission letter.
apply_bit_minus_as_plus(acc, w, action, p) ==
    IF p \notin PermLetters THEN acc
    ELSE CASE action = "+" -> BitOr(acc, perm_bits(w, p))
           [] action = "-" -> BitOr(acc, perm_bits(w, p))
           [] action = "=" ->
                BitOr(IF w # "a" THEN reset_category(acc, w, PermKeys) ELSE acc,
                      perm_bits(w, p))

apply_bit_assign_no_reset(acc, w, action, p) ==
    IF p \notin PermLetters THEN acc
    ELSE CASE action = "+" -> BitOr(acc, perm_bits(w, p))
           [] action = "-" -> BitClear(acc, perm_bits(w, p))
           [] action = "=" -> BitOr(acc, perm_bits(w, p))

apply_bit(acc, w, action, p) ==
    IF p \notin PermLetters THEN acc
    ELSE CASE action = "+" -> BitOr(acc, perm_bits(w, p))
           [] action = "-" -> BitClear(acc, perm_bits(w, p))
           [] action = "=" ->
                BitOr(IF w # "a" THEN reset_category(acc, w, PermKeys) ELSE acc,
                      perm_bits(w, p))

\* "for p in perms"
RECURSIVE perms_loop(_, _, _, _)
perms_loop(acc, w, action, perms) ==
    IF perms = <<>> THEN acc
    ELSE perms_loop(apply_bit(acc, w, action, Head(perms)), w, action, Tail(perms))

\* "for w in who"
RECURSIVE who_loop(_, _, _, _)
who_loop(acc, who, action, perms) ==
    IF who = <<>> THEN acc
    ELSE who_loop(perms_loop(acc, Head(who), action, perms), Tail(who), action, perms)

\* One clause applied to the accumulator: "if not who: who = 'a'", then the loops.
apply_clause(acc, m) ==
    who_loop(acc, IF m.who = <<>> THEN <<"a">> ELSE m.who, m.action, m.perms)

----------------------------------------------------------------------------
(* The arguments symbolic_to_octal is called with.                         *)

WhoTexts == {<<>>, <<"u">>, <<"g">>, <<"o">>, <<"a">>, <<"u", "g">>}

PermTexts == {<<>>, <<"x">>, <<"r", "w">>}

\* Clauses the grammar [ugoa]*[+=-][rwx]* generates.
GrammarClauses ==
    {w \o <<a>> \o p : w \in WhoTexts, a \in ActionLetters, p \in PermTexts}

\* Clauses outside the grammar: empty, unknown category, text after the
\* permissions, surrounding blanks.
OddClauses ==
    { <<>>,
      <<"z", "+", "r">>,
      <<"u", "+", "r", "z">>,
      <<"u", "+", "s">>,
      <<"u", "+", "r", " ", "g", "+", "w">>,
      <<" ", "g", "=", "x", " ">>,
      <<"r">> }

ClauseTexts == GrammarClauses \cup OddClauses

ClauseLists(n) == UNION {[1..k -> ClauseTexts] : k \in 1..n}

Expressions == {Join(cs) : cs \in ClauseLists(MaxClauses)}

\* "u=r,g=r,o=r"
AssignAllRead ==
    <<"u", "=", "r", ",", "g", "=", "r", ",", "o", "=", "r">>

\* AssignAllRead alone, and after a prefix of up to MaxPrefix clauses.
AssignExpressions ==
    {AssignAllRead} \cup
    {Join(cs) \o <<",">> \o AssignAllRead : cs \in ClauseLists(MaxPrefix)}

\* The expressions the documentation and the specification give as examples.
ExampleExpressions ==
    { <<"u", "+", "r", "w", "x", ",", "g", "+", "r", "x", ",", "o", "+", "r">>,
      <<"a", "+", "r", "w", "x">>,
      <<"a", "+", "r", "w", "x", ",", "a", "-", "r", "w", "x">>,
      <<"u", "+", "r", "w", "x", ",", "u", "-", "w">>,
      <<"u", "-", "w", ",", "u", "+", "r", "w", "x">>,
      <<"u", "=", "r", "w">>,
      <<"u", "=", "r", "w", "x">>,
      <<"u", "+", "r", "w", "x", ",", "u", "=">>,
      <<"a", "+", "r", "w", "x", ",", "a", "=", "r">>,
      <<"u", "+", "r", "w", "x", ",", "=", "r">> }

----------------------------------------------------------------------------
(* human_to_bytes                                                          *)

Digits == {"0", "1", "2", "3", "4", "5", "6", "7", "8", "9"}

DigitValue(c) ==
    CASE c = "0" -> 0 [] c = "1" -> 1 [] c = "2" -> 2 [] c = "3" -> 3 [] c = "4" -> 4
      [] c = "5" -> 5 [] c = "6" -> 6 [] c = "7" -> 7 [] c = "8" -> 8 [] c = "9" -> 9

\* int(num) for a text of decimal digits.
RECURSIVE int_acc(_, _)
int_acc(acc, num) ==
    IF num = <<>> THEN acc ELSE int_acc(10 * acc + DigitValue(Head(num)), Tail(num))

int(num) == int_acc(0, num)

\* str.upper() on one character.
upper_char(c) ==
    CASE c = "b" -> "B" [] c = "k" -> "K" [] c = "m" -> "M" [] c = "g" -> "G"
      [] c = "i" -> "I" [] c = "x" -> "X"
      [] OTHER -> c

upper_left_as_is(t) == t

\* s.upper()
upper(t) == [i \in 1..Len(t) |-> upper_char(t[i])]

\* units.get(unit, 1)
units_get(unit) ==
    CASE unit = <<"B">> -> 1
      [] unit = <<"K">> -> 1024
      [] unit = <<"K", "B">> -> 1024
      [] unit = <<"M">> -> 1024 * 1024
      [] unit = <<"M", "B">> -> 1024 * 1024
      [] unit = <<"G">> -> 1024 * 1024 * 1024
      [] unit = <<"G", "B">> -> 1024 * 1024 * 1024
      [] OTHER -> 1

\* re.match(r"(\d+)([KMGB]?B?)", t): anchored at the start only; matched is
\* FALSE where re.match returns None.
re_match_size(t) ==
    LET num   == TakeWhile(t, Digits)
        rest  == DropN(t, Len(num))
        first == IF rest # <<>> /\ rest[1] \in {"K", "M", "G", "B"}
                 THEN <<rest[1]>> ELSE <<>>
        after == DropN(rest, Len(first))
        last  == IF after # <<>> /\ after[1] = "B" THEN <<"B">> ELSE <<>>
    IN  IF num = <<>>
        THEN [matched |-> FALSE, num |-> <<>>, unit |-> <<>>]
        ELSE [matched |-> TRUE, num |-> num, unit |-> first \o last]

----------------------------------------------------------------------------
(* The arguments human_to_bytes is called with.                            *)

SizeDigits == {"0", "1", "5"}

SizeLetters == {"B", "K", "M", "G", "b", "k", "m", "g", "X", "i", " "}

Texts(alphabet, lo, hi) == UNION {[1..k -> alphabet] : k \in lo..hi}

\* Python's integers are unbounded; the model's are 32 bits wide, so a
\* number above 1 is kept away from the 1024**3 units.
FitsModelInt(num, suffix) ==
    \/ suffix = <<>>
    \/ suffix[1] \notin {"G", "g"}
    \/ \A i \in 1..Len(num) : num[i] = "0" \/ (i = Len(num) /\ num[i] = "1")

\* A decimal number (or nothing) followed by a suffix, and ' 5'.
SizeTexts ==
    {t.num \o t.suffix :
        t \in {x \in [num : Texts(SizeDigits, 0, MaxDigits),
                      suffix : Texts(SizeLetters, 0, MaxSuffix)] :
                  FitsModelInt(x.num, x.suffix)}}
        \cup {<<" ", "5">>}

----------------------------------------------------------------------------
(* dir_ls                                                                  *)

\* The path dir_ls is called with.
RootPath == <<"d">>

\* The entries a directory tree may hold, by path below the root, with what
\* is_file(), is_dir() and is_symlink() answer for each.
Universe ==
    { [rel |-> <<".", "h">>,    is_file |-> TRUE,  is_dir |-> FALSE, is_symlink |-> FALSE],
      [rel |-> <<"a", ".", "t">>,   is_file |-> TRUE,  is_dir |-> FALSE, is_symlink |-> FALSE],
      [rel |-> <<"s">>,     is_file |-> FALSE, is_dir |-> TRUE,  is_symlink |-> FALSE],
      [rel |-> <<"s", "/", "b", ".", "t">>, is_file |-> TRUE,  is_dir |-> FALSE, is_symlink |-> FALSE],
      [rel |-> <<"l">>,     is_file |-> TRUE,  is_dir |-> FALSE, is_symlink |-> TRUE],
      [rel |-> <<".", "g">>,    is_file |-> FALSE, is_dir |-> TRUE,  is_symlink |-> FALSE],
      [rel |-> <<".", "g", "/", "c">>, is_file |-> TRUE,  is_dir |-> FALSE, is_symlink |-> FALSE] }

Nested(e) == "/" \in {e.rel[i] : i \in 1..Len(e.rel)}

\* str(p)
str(e) == RootPath \o <<"/">> \o e.rel

\* p.name: the text after the last '/'.
name(e) == Reverse(TakeWhile(Reverse(e.rel), {c \in {e.rel[i] : i \in 1..Len(e.rel)} : c # "/"}))

\* A tree holds a nested entry only with the directory above it.
Trees ==
    {fs \in SUBSET Universe :
        /\ Cardinality(fs) <= MaxEntries
        /\ \A e \in fs : Nested(e) =>
              \E d \in fs : d.is_dir /\ d.rel \o <<"/">> \o name(e) = e.rel}

\* fnmatch of one path component: '*' matches any run, '?' one character.
RECURSIVE fnmatch(_, _)
fnmatch(text, pat) ==
    IF pat = <<>> THEN text = <<>>
    ELSE IF Head(pat) = "*"
         THEN fnmatch(text, Tail(pat)) \/ (text # <<>> /\ fnmatch(Tail(text), pat))
         ELSE /\ text # <<>>
              /\ Head(pat) \in {"?", Head(text)}
              /\ fnmatch(Tail(text), Tail(pat))

\* p.match(glob) for a pattern of one component: matched against the name.
path_match(e, glob) == fnmatch(name(e), glob)

\* re.search(regexp, str(p)) for a pattern of literal characters.
re_search(regexp, text) ==
    \E i \in 1..(Len(text) - Len(regexp) + 1) :
        SubSeq(text, i, i + Len(regexp) - 1) = regexp

\* path.rglob('*') if recurse else path.iterdir()
iterator(fs, recurse) == IF recurse THEN fs ELSE {e \in fs : ~Nested(e)}

\* The type filter of the loop body: "continue", "pass" or "ValueError".
type_filter_step(e, type_filter) ==
    IF type_filter # "any"
    THEN IF type_filter = "file" /\ ~e.is_file THEN "continue"
         ELSE IF type_filter = "directory" /\ ~e.is_dir THEN "continue"
         ELSE IF type_filter = "symlink" /\ ~e.is_symlink THEN "continue"
         ELSE "ValueError"
    ELSE "pass"

\* A matcher that ignores invert.
condition_ignores_invert(matched, invert) == matched

\* One matcher of the loop body: condition = not invert if matched else invert.
condition(matched, invert) == IF matched THEN ~invert ELSE invert

\* The loop body with the type filter evaluated before the hidden test.
visit_type_before_hidden(e, a) ==
    IF type_filter_step(e, a.type_filter) # "pass"
    THEN type_filter_step(e, a.type_filter)
    ELSE IF ~a.all /\ name(e) # <<>> /\ Head(name(e)) = "."
    THEN "continue"
    ELSE IF a.glob # <<>> /\ ~condition(path_match(e, a.glob), a.invert)
    THEN "continue"
    ELSE IF a.regexp # <<>> /\ ~condition(re_search(a.regexp, str(e)), a.invert)
    THEN "continue"
    ELSE "append"

\* The loop body for one entry: "continue", "append" or "ValueError".
visit(e, a) ==
    IF ~a.all /\ name(e) # <<>> /\ Head(name(e)) = "."
    THEN "continue"
    ELSE IF type_filter_step(e, a.type_filter) # "pass"
    THEN type_filter_step(e, a.type_filter)
    ELSE IF a.glob # <<>> /\ ~condition(path_match(e, a.glob), a.invert)
    THEN "continue"
    ELSE IF a.regexp # <<>> /\ ~condition(re_search(a.regexp, str(e)), a.invert)
    THEN "continue"
    ELSE "append"

----------------------------------------------------------------------------
(* The arguments dir_ls is called with, and the trees it is called on.     *)

TypeFilters == {"any", "file", "directory", "symlink", "bogus"}

\* An absent glob or regexp (None, or the empty text) is <<>>.
Globs == {<<>>, <<"*", ".", "t">>}

Regexps == {<<>>, <<"s">>}

LsArgs ==
    [all : BOOLEAN, recurse : BOOLEAN, type_filter : TypeFilters,
     glob : Globs, regexp : Regexps, invert : BOOLEAN, fail : BOOLEAN]

\* What the root path is: nothing, a regular file, a directory, or a
\* directory that may not be read.
RootKinds == {"missing", "file", "dir", "dir_noperm", "dir_ioerror"}

NoResult == [exc |-> "", cause |-> "", list |-> <<>>]

----------------------------------------------------------------------------
(* The state machines: one call of one function per behaviour.  The        *)
(* variables of the functions that are not called stay idle.               *)

PermIdle ==
    /\ symbolic = <<>>
    /\ operations = <<>>
    /\ perm = 0
    /\ perm_pc = "idle"
    /\ perm_ret = "None"

SizeIdle ==
    /\ size_text = <<>>
    /\ size_pc = "idle"
    /\ size_ret = "None"

LsIdle ==
    /\ ls_args = [all |-> FALSE, recurse |-> FALSE, type_filter |-> "any",
                  glob |-> <<>>, regexp |-> <<>>, invert |-> FALSE, fail |-> TRUE]
    /\ ls_root = "missing"
    /\ ls_fs = {}
    /\ ls_todo = {}
    /\ ls_results = <<>>
    /\ ls_pc = "idle"
    /\ ls_ret = NoResult
    /\ ls_prev = NoResult
    /\ ls_call = 1

\* No call of the temp-stack functions yet.
NoCall == [op |-> "none", value |-> <<>>]

TempIdle ==
    /\ temp_stack = <<>>
    /\ temp_disk = <<>>
    /\ temp_locked = {}
    /\ temp_pc = "idle"
    /\ temp_ret = NoCall
    /\ temp_start = <<>>
    /\ temp_disk0 = <<>>
    /\ temp_log = <<>>

FilterIdle ==
    /\ pf_paths = <<>>
    /\ pf_args = [glob |-> <<>>, regexp |-> <<>>, invert |-> FALSE]
    /\ pf_i = 0
    /\ pf_filtered = <<>>
    /\ pf_pc = "idle"
    /\ pf_ret = <<>>

DirCopyIdle ==
    /\ dc_args = [path |-> <<>>, new_path |-> <<>>, overwrite |-> FALSE]
    /\ dc_fs = {}
    /\ dc_fs0 = {}
    /\ dc_pc = "idle"
    /\ dc_ret = "None"

PermInit ==
    /\ symbolic \in Expressions \cup AssignExpressions \cup ExampleExpressions
    /\ operations = <<>>
    /\ perm = 0
    /\ perm_pc = "call"
    /\ perm_ret = "None"
    /\ SizeIdle
    /\ LsIdle
    /\ TempIdle
    /\ FilterIdle
    /\ DirCopyIdle

\* perm = 0; operations = symbolic.split(',')
PermSplit ==
    /\ perm_pc = "call"
    /\ operations' = split(symbolic)
    /\ perm' = 0
    /\ perm_pc' = "loop"
    /\ UNCHANGED <<symbolic, perm_ret, size_vars, ls_vars, temp_vars, pf_vars, dc_vars>>

\* One iteration of "for op in operations" whose clause matches.
PermClause ==
    /\ perm_pc = "loop"
    /\ operations # <<>>
    /\ LET m == re_match_perm(strip(Head(operations)))
       IN  /\ m.matched
           /\ perm' = apply_clause(perm, m)
    /\ operations' = Tail(operations)
    /\ UNCHANGED <<symbolic, perm_pc, perm_ret, size_vars, ls_vars, temp_vars, pf_vars, dc_vars>>

\* One iteration whose clause does not match: raise ValueError.
PermRaise ==
    /\ perm_pc = "loop"
    /\ operations # <<>>
    /\ ~re_match_perm(strip(Head(operations))).matched
    /\ perm_pc' = "raised"
    /\ perm_ret' = "ValueError"
    /\ UNCHANGED <<symbolic, operations, perm, size_vars, ls_vars, temp_vars, pf_vars, dc_vars>>

\* return perm
PermReturn ==
    /\ perm_pc = "loop"
    /\ operations = <<>>
    /\ perm_pc' = "returned"
    /\ perm_ret' = perm
    /\ UNCHANGED <<symbolic, operations, perm, size_vars, ls_vars, temp_vars, pf_vars, dc_vars>>

PermNext == PermSplit \/ PermClause \/ PermRaise \/ PermReturn

SpecPerm == PermInit /\ [][PermNext]_vars

SizeInit ==
    /\ size_text \in SizeTexts
    /\ size_pc = "call"
    /\ size_ret = "None"
    /\ PermIdle
    /\ LsIdle
    /\ TempIdle
    /\ FilterIdle
    /\ DirCopyIdle

\* The pattern matches: return int(num) * units.get(unit, 1).
SizeReturn ==
    /\ size_pc = "call"
    /\ LET m == re_match_size(upper(size_text))
       IN  /\ m.matched
           /\ size_ret' = int(m.num) * units_get(m.unit)
    /\ size_pc' = "returned"
    /\ UNCHANGED <<size_text, perm_vars, ls_vars, temp_vars, pf_vars, dc_vars>>

\* The pattern does not match: raise ValueError.
SizeRaise ==
    /\ size_pc = "call"
    /\ ~re_match_size(upper(size_text)).matched
    /\ size_pc' = "raised"
    /\ size_ret' = "ValueError"
    /\ UNCHANGED <<size_text, perm_vars, ls_vars, temp_vars, pf_vars, dc_vars>>

SizeNext == SizeReturn \/ SizeRaise

SpecSize == SizeInit /\ [][SizeNext]_vars

LsInit ==
    /\ ls_args \in LsArgs
    /\ ls_root \in RootKinds
    /\ ls_fs \in IF ls_root \in {"dir", "dir_noperm", "dir_ioerror"} THEN Trees ELSE {{}}
    /\ ls_todo = {}
    /\ ls_results = <<>>
    /\ ls_pc = "call"
    /\ ls_ret = NoResult
    /\ ls_prev = NoResult
    /\ ls_call = 1
    /\ PermIdle
    /\ SizeIdle
    /\ TempIdle
    /\ FilterIdle
    /\ DirCopyIdle

\* not path.exists() and fail: raise FileNotFoundError
LsMissingRaise ==
    /\ ls_pc = "call"
    /\ ls_root = "missing"
    /\ ls_args.fail
    /\ ls_pc' = "raised"
    /\ ls_ret' = [NoResult EXCEPT !.exc = "FileNotFoundError"]
    /\ UNCHANGED <<ls_args, ls_root, ls_fs, ls_todo, ls_results, ls_prev, ls_call, perm_vars, size_vars, temp_vars, pf_vars, dc_vars>>

\* not path.exists() and not fail: return []
LsMissingEmpty ==
    /\ ls_pc = "call"
    /\ ls_root = "missing"
    /\ ~ls_args.fail
    /\ ls_pc' = "returned"
    /\ ls_ret' = [NoResult EXCEPT !.list = <<>>]
    /\ UNCHANGED <<ls_args, ls_root, ls_fs, ls_todo, ls_results, ls_prev, ls_call, perm_vars, size_vars, temp_vars, pf_vars, dc_vars>>

\* A root that is not a directory handled like a missing one: [] unless fail.
LsNotADirectory_honours_fail ==
    /\ ls_pc = "call"
    /\ ls_root = "file"
    /\ ls_pc' = IF ls_args.fail THEN "raised" ELSE "returned"
    /\ ls_ret' = IF ls_args.fail
                    THEN [NoResult EXCEPT !.exc = "NotADirectoryError"]
                    ELSE [NoResult EXCEPT !.list = <<>>]
    /\ UNCHANGED <<ls_args, ls_root, ls_fs, ls_todo, ls_results, ls_prev, ls_call, perm_vars, size_vars, temp_vars, pf_vars, dc_vars>>

\* not path.is_dir(): raise NotADirectoryError
LsNotADirectory ==
    /\ ls_pc = "call"
    /\ ls_root = "file"
    /\ ls_pc' = "raised"
    /\ ls_ret' = [NoResult EXCEPT !.exc = "NotADirectoryError"]
    /\ UNCHANGED <<ls_args, ls_root, ls_fs, ls_todo, ls_results, ls_prev, ls_call, perm_vars, size_vars, temp_vars, pf_vars, dc_vars>>

\* results = []; the iterator is opened on a readable directory.
LsOpen ==
    /\ ls_pc = "call"
    /\ ls_root \in {"dir", "dir_ioerror"}
    /\ ls_results' = <<>>
    /\ ls_todo' = iterator(ls_fs, ls_args.recurse)
    /\ ls_pc' = "loop"
    /\ UNCHANGED <<ls_args, ls_root, ls_fs, ls_ret, ls_prev, ls_call, perm_vars, size_vars, temp_vars, pf_vars, dc_vars>>

\* The directory cannot be read: the iterator raises PermissionError, which
\* "except Exception" turns into RuntimeError.
LsOpenFail ==
    /\ ls_pc = "call"
    /\ ls_root = "dir_noperm"
    /\ ls_pc' = "raised"
    /\ ls_ret' = [NoResult EXCEPT !.exc = "RuntimeError", !.cause = "PermissionError"]
    /\ UNCHANGED <<ls_args, ls_root, ls_fs, ls_todo, ls_results, ls_prev, ls_call, perm_vars, size_vars, temp_vars, pf_vars, dc_vars>>

\* The iterator yields an entry, in any order, and the loop body skips it.
LsContinue ==
    /\ ls_pc = "loop"
    /\ \E e \in ls_todo :
          /\ visit(e, ls_args) = "continue"
          /\ ls_todo' = ls_todo \ {e}
    /\ UNCHANGED <<ls_args, ls_root, ls_fs, ls_results, ls_pc, ls_ret, ls_prev, ls_call, perm_vars, size_vars, temp_vars, pf_vars, dc_vars>>

\* The iterator yields an entry and the loop body appends it.
LsAppend ==
    /\ ls_pc = "loop"
    /\ \E e \in ls_todo :
          /\ visit(e, ls_args) = "append"
          /\ ls_todo' = ls_todo \ {e}
          /\ ls_results' = Append(ls_results, str(e))
    /\ UNCHANGED <<ls_args, ls_root, ls_fs, ls_pc, ls_ret, ls_prev, ls_call, perm_vars, size_vars, temp_vars, pf_vars, dc_vars>>

\* The iterator yields an entry and the loop body raises ValueError, which
\* "except Exception" turns into RuntimeError.
LsRaise ==
    /\ ls_pc = "loop"
    /\ \E e \in ls_todo : visit(e, ls_args) = "ValueError"
    /\ ls_pc' = "raised"
    /\ ls_ret' = [NoResult EXCEPT !.exc = "RuntimeError", !.cause = "ValueError"]
    /\ UNCHANGED <<ls_args, ls_root, ls_fs, ls_todo, ls_results, ls_prev, ls_call, perm_vars, size_vars, temp_vars, pf_vars, dc_vars>>

\* The failure of the iterator swallowed: the entries gathered so far returned.
LsIterFail_returns_partial ==
    /\ ls_pc = "loop"
    /\ ls_root = "dir_ioerror"
    /\ ls_pc' = "returned"
    /\ ls_ret' = [NoResult EXCEPT !.list = ls_results]
    /\ UNCHANGED <<ls_args, ls_root, ls_fs, ls_todo, ls_results, ls_prev, ls_call, perm_vars, size_vars, temp_vars, pf_vars, dc_vars>>

\* The iterator fails with OSError at one of its steps, after any number of
\* entries: "except Exception" turns it into RuntimeError and the results
\* gathered so far are dropped with the frame.
LsIterFail ==
    /\ ls_pc = "loop"
    /\ ls_root = "dir_ioerror"
    /\ ls_pc' = "raised"
    /\ ls_ret' = [NoResult EXCEPT !.exc = "RuntimeError", !.cause = "OSError"]
    /\ UNCHANGED <<ls_args, ls_root, ls_fs, ls_todo, ls_results, ls_prev, ls_call, perm_vars, size_vars, temp_vars, pf_vars, dc_vars>>

\* The iterator is exhausted: return results.
LsReturn ==
    /\ ls_pc = "loop"
    /\ ls_root = "dir"
    /\ ls_todo = {}
    /\ ls_pc' = "returned"
    /\ ls_ret' = [NoResult EXCEPT !.list = ls_results]
    /\ UNCHANGED <<ls_args, ls_root, ls_fs, ls_todo, ls_results, ls_prev, ls_call, perm_vars, size_vars, temp_vars, pf_vars, dc_vars>>

\* The caller calls dir_ls again with the same arguments; the filesystem is
\* as it was.
LsAgain ==
    /\ ls_call = 1
    /\ ls_pc \in {"returned", "raised"}
    /\ ls_prev' = ls_ret
    /\ ls_call' = 2
    /\ ls_todo' = {}
    /\ ls_results' = <<>>
    /\ ls_ret' = NoResult
    /\ ls_pc' = "call"
    /\ UNCHANGED <<ls_args, ls_root, ls_fs, perm_vars, size_vars, temp_vars, pf_vars, dc_vars>>

LsNext ==
    \/ LsMissingRaise \/ LsMissingEmpty \/ LsNotADirectory
    \/ LsOpen \/ LsOpenFail
    \/ LsContinue \/ LsAppend \/ LsRaise \/ LsIterFail
    \/ LsReturn

SpecLs == LsInit /\ [][LsNext]_vars

LsTwiceNext == LsNext \/ LsAgain

SpecLsTwice == LsInit /\ [][LsTwiceNext]_vars

----------------------------------------------------------------------------
(* The temp stack: file_temp_push, file_temp_pop, cleanup_temp_files.      *)

\* The texts file_temp_push is called with.
PathTexts == {<<"p">>, <<"p", "/">>, <<"q">>}

\* Path(path): a trailing '/' is dropped.
RECURSIVE Path(_)
Path(text) ==
    IF Len(text) > 1 /\ text[Len(text)] = "/"
    THEN Path(SubSeq(text, 1, Len(text) - 1))
    ELSE text

Paths == {Path(t) : t \in PathTexts}

\* What a path may be on the filesystem.
DiskKinds == {"file", "symlink", "dir", "missing"}

\* None, where a Path is expected.
NonePath == <<"None">>

\* The body of the try statement of cleanup_temp_files for one path: what is
\* done to it, and the filesystem after it. A deletion that fails raises and
\* leaves the path in place.
remove(path, disk, locked) ==
    IF disk[path] \in {"file", "symlink"}
    THEN IF path \in locked
         THEN [outcome |-> "failed", disk |-> disk]
         ELSE [outcome |-> "unlink", disk |-> [disk EXCEPT ![path] = "missing"]]
    ELSE IF disk[path] = "dir"
    THEN IF path \in locked
         THEN [outcome |-> "failed", disk |-> disk]
         ELSE [outcome |-> "rmtree", disk |-> [disk EXCEPT ![path] = "missing"]]
    ELSE [outcome |-> "skip", disk |-> disk]

TempInit ==
    /\ temp_stack = <<>>
    /\ temp_disk \in [Paths -> DiskKinds]
    /\ temp_locked \in SUBSET Paths
    /\ temp_pc = "ready"
    /\ temp_ret = NoCall
    /\ temp_start = <<>>
    /\ temp_disk0 = temp_disk
    /\ temp_log = <<>>
    /\ PermIdle
    /\ SizeIdle
    /\ LsIdle
    /\ FilterIdle
    /\ DirCopyIdle

\* _temp_stack.append(Path(path)); return Path(path)
FileTempPush ==
    /\ temp_pc = "ready"
    /\ Len(temp_stack) < MaxStack
    /\ \E text \in PathTexts :
          /\ temp_stack' = Append(temp_stack, Path(text))
          /\ temp_ret' = [op |-> "push", value |-> Path(text)]
    /\ UNCHANGED <<temp_disk, temp_locked, temp_pc, temp_start, temp_disk0, temp_log,
                   perm_vars, size_vars, ls_vars, pf_vars, dc_vars>>

\* A pop that takes the oldest path of the stack.
FileTempPop_fifo ==
    /\ temp_pc = "ready"
    /\ IF temp_stack # <<>>
       THEN /\ temp_ret' = [op |-> "pop", value |-> Head(temp_stack)]
            /\ temp_stack' = Tail(temp_stack)
       ELSE /\ temp_ret' = [op |-> "pop", value |-> NonePath]
            /\ temp_stack' = temp_stack
    /\ UNCHANGED <<temp_disk, temp_locked, temp_pc, temp_start, temp_disk0, temp_log,
                   perm_vars, size_vars, ls_vars, pf_vars, dc_vars>>

\* if _temp_stack: return _temp_stack.pop(); return None
FileTempPop ==
    /\ temp_pc = "ready"
    /\ IF temp_stack # <<>>
       THEN /\ temp_ret' = [op |-> "pop", value |-> temp_stack[Len(temp_stack)]]
            /\ temp_stack' = SubSeq(temp_stack, 1, Len(temp_stack) - 1)
       ELSE /\ temp_ret' = [op |-> "pop", value |-> NonePath]
            /\ temp_stack' = temp_stack
    /\ UNCHANGED <<temp_disk, temp_locked, temp_pc, temp_start, temp_disk0, temp_log,
                   perm_vars, size_vars, ls_vars, pf_vars, dc_vars>>

\* cleanup_temp_files is entered, by a call or at exit.
CleanupStart ==
    /\ temp_pc = "ready"
    /\ temp_pc' = "cleanup"
    /\ temp_start' = temp_stack
    /\ temp_disk0' = temp_disk
    /\ temp_log' = <<>>
    /\ UNCHANGED <<temp_stack, temp_disk, temp_locked, temp_ret,
                   perm_vars, size_vars, ls_vars, pf_vars, dc_vars>>

\* A loop that ends at the first deletion that fails.
CleanupStep_stops_on_failure ==
    /\ temp_pc = "cleanup"
    /\ temp_stack # <<>>
    /\ LET path == temp_stack[Len(temp_stack)]
           done == remove(path, temp_disk, temp_locked)
       IN  /\ temp_stack' = SubSeq(temp_stack, 1, Len(temp_stack) - 1)
           /\ temp_disk' = done.disk
           /\ temp_log' = Append(temp_log, [path |-> path, outcome |-> done.outcome])
           /\ temp_pc' = IF done.outcome = "failed" THEN "ready" ELSE "cleanup"
           /\ temp_ret' = IF done.outcome = "failed"
                            THEN [op |-> "cleanup", value |-> NonePath]
                            ELSE temp_ret
    /\ UNCHANGED <<temp_locked, temp_start, temp_disk0,
                   perm_vars, size_vars, ls_vars, pf_vars, dc_vars>>

\* One turn of "while _temp_stack": pop a path and try to delete it; a
\* failure is printed and the loop goes on.
CleanupStep ==
    /\ temp_pc = "cleanup"
    /\ temp_stack # <<>>
    /\ LET path == temp_stack[Len(temp_stack)]
           done == remove(path, temp_disk, temp_locked)
       IN  /\ temp_stack' = SubSeq(temp_stack, 1, Len(temp_stack) - 1)
           /\ temp_disk' = done.disk
           /\ temp_log' = Append(temp_log, [path |-> path, outcome |-> done.outcome])
    /\ UNCHANGED <<temp_locked, temp_pc, temp_ret, temp_start, temp_disk0,
                   perm_vars, size_vars, ls_vars, pf_vars, dc_vars>>

\* _temp_stack is empty: the loop ends and cleanup_temp_files returns.
CleanupEnd ==
    /\ temp_pc = "cleanup"
    /\ temp_stack = <<>>
    /\ temp_pc' = "ready"
    /\ temp_ret' = [op |-> "cleanup", value |-> NonePath]
    /\ UNCHANGED <<temp_stack, temp_disk, temp_locked, temp_start, temp_disk0, temp_log,
                   perm_vars, size_vars, ls_vars, pf_vars, dc_vars>>

TempNext ==
    \/ FileTempPush \/ FileTempPop
    \/ CleanupStart \/ CleanupStep \/ CleanupEnd

SpecTemp == TempInit /\ [][TempNext]_vars

\* cleanup_temp_files runs on once it is entered: nothing else runs in between.
SpecTempFair == SpecTemp /\ WF_vars(CleanupStep) /\ WF_vars(CleanupEnd)

----------------------------------------------------------------------------
(* path_filter                                                             *)

\* The lists of paths path_filter is called with: the paths of the entries
\* dir_ls meets, in any order, repeats allowed.
PathLists == UNION {[1..n -> Universe] : n \in 0..MaxPaths}

PfArgs == [glob : Globs, regexp : Regexps, invert : BOOLEAN]

\* The loop body up to "if match": match starts True, the glob branch
\* assigns it, and the regexp branch assigns it again.
match(p, a) ==
    LET after_glob ==
            IF a.glob # <<>>
            THEN IF path_match(p, a.glob) THEN ~a.invert ELSE a.invert
            ELSE TRUE
    IN  IF a.regexp # <<>>
        THEN IF re_search(a.regexp, str(p)) THEN ~a.invert ELSE a.invert
        ELSE after_glob

PathFilterInit ==
    /\ pf_paths \in PathLists
    /\ pf_args \in PfArgs
    /\ pf_i = 0
    /\ pf_filtered = <<>>
    /\ pf_pc = "call"
    /\ pf_ret = <<>>
    /\ PermIdle
    /\ SizeIdle
    /\ LsIdle
    /\ TempIdle
    /\ DirCopyIdle

\* filtered = []
PathFilterCall ==
    /\ pf_pc = "call"
    /\ pf_filtered' = <<>>
    /\ pf_i' = 0
    /\ pf_pc' = "loop"
    /\ UNCHANGED <<pf_paths, pf_args, pf_ret, perm_vars, size_vars, ls_vars, temp_vars, dc_vars>>

\* The next path, and match is true: filtered.append(p)
PathFilterAppend ==
    /\ pf_pc = "loop"
    /\ pf_i < Len(pf_paths)
    /\ match(pf_paths[pf_i + 1], pf_args)
    /\ pf_filtered' = Append(pf_filtered, pf_paths[pf_i + 1])
    /\ pf_i' = pf_i + 1
    /\ UNCHANGED <<pf_paths, pf_args, pf_pc, pf_ret, perm_vars, size_vars, ls_vars, temp_vars, dc_vars>>

\* The next path, and match is false.
PathFilterSkip ==
    /\ pf_pc = "loop"
    /\ pf_i < Len(pf_paths)
    /\ ~match(pf_paths[pf_i + 1], pf_args)
    /\ pf_i' = pf_i + 1
    /\ UNCHANGED <<pf_paths, pf_args, pf_filtered, pf_pc, pf_ret,
                   perm_vars, size_vars, ls_vars, temp_vars, dc_vars>>

\* return filtered
PathFilterReturn ==
    /\ pf_pc = "loop"
    /\ pf_i = Len(pf_paths)
    /\ pf_pc' = "returned"
    /\ pf_ret' = pf_filtered
    /\ UNCHANGED <<pf_paths, pf_args, pf_i, pf_filtered, perm_vars, size_vars, ls_vars, temp_vars, dc_vars>>

PathFilterNext ==
    \/ PathFilterCall
    \/ PathFilterAppend \/ PathFilterSkip
    \/ PathFilterReturn

SpecFilter == PathFilterInit /\ [][PathFilterNext]_vars

----------------------------------------------------------------------------
(* dir_copy                                                                *)

\* The files and directories a filesystem may hold when dir_copy is called.
Nodes ==
    { [path |-> <<"a">>,                     kind |-> "dir",  data |-> ""],
      [path |-> <<"a", "/", "s">>,           kind |-> "dir",  data |-> ""],
      [path |-> <<"a", "/", "s", "/", "x">>, kind |-> "file", data |-> "1"],
      [path |-> <<"n">>,                     kind |-> "dir",  data |-> ""],
      [path |-> <<"n", "/", "y">>,           kind |-> "file", data |-> "2"],
      [path |-> <<"f">>,                     kind |-> "file", data |-> "3"] }

\* p is q or lies below q.
IsUnder(p, q) ==
    \/ p = q
    \/ Len(p) > Len(q) /\ SubSeq(p, 1, Len(q) + 1) = q \o <<"/">>

\* A filesystem holds a node only with the directories above it.
Filesystems ==
    {fs \in SUBSET Nodes :
        \A n \in fs : \A d \in Nodes : (d.path # n.path /\ IsUnder(n.path, d.path)) => d \in fs}

\* The texts dir_copy is called with as path and as new_path. The source is
\* a directory without subdirectories and a destination below it is its
\* direct child, so that copytree does not descend into what it creates.
SourceTexts == {<<"a", "/", "s">>, <<"f">>}
TargetTexts ==
    { <<"a">>, <<"a", "/", "s">>, <<"a", "/", "s", "/">>, <<"a", "/", "s", "/", "c">>,
      <<"n">>, <<"m">>, <<"f">> }

DirCopyArgs == [path : SourceTexts, new_path : TargetTexts, overwrite : BOOLEAN]

\* p.exists(), p.is_dir()
exists(fs, p) == \E n \in fs : n.path = p
is_dir(fs, p) == \E n \in fs : n.path = p /\ n.kind = "dir"

\* shutil.rmtree(p): raises on what is not a directory, else removes p and
\* all below it.
rmtree(fs, p) ==
    IF ~is_dir(fs, p)
    THEN [exc |-> "NotADirectoryError", fs |-> fs]
    ELSE [exc |-> "", fs |-> {n \in fs : ~IsUnder(n.path, p)}]

\* The directories above p that makedirs creates with it.
Ancestors(p) ==
    {SubSeq(p, 1, i - 1) : i \in {j \in 2..Len(p) : p[j] = "/"}}

\* shutil.copytree(src, dst): lists src, creates dst with the directories
\* above it, and copies what it listed below dst.
copytree(fs, src, dst) ==
    IF ~is_dir(fs, src)
    THEN [exc |-> "FileNotFoundError", fs |-> fs]
    ELSE IF exists(fs, dst)
    THEN [exc |-> "FileExistsError", fs |-> fs]
    ELSE [exc |-> "",
          fs |-> fs
                 \cup {[path |-> d, kind |-> "dir", data |-> ""] :
                          d \in {a \in Ancestors(dst) \cup {dst} : ~exists(fs, a)}}
                 \cup {[path |-> dst \o SubSeq(n.path, Len(src) + 1, Len(n.path)),
                         kind |-> n.kind, data |-> n.data] :
                          n \in {m \in fs : m.path # src /\ IsUnder(m.path, src)}}]

DirCopyInit ==
    /\ dc_args \in DirCopyArgs
    /\ dc_fs \in Filesystems
    /\ dc_fs0 = dc_fs
    /\ dc_pc = "call"
    /\ dc_ret = "None"
    /\ PermIdle
    /\ SizeIdle
    /\ LsIdle
    /\ TempIdle
    /\ FilterIdle

\* not path.is_dir(): raise NotADirectoryError
DirCopySourceRaise ==
    /\ dc_pc = "call"
    /\ ~is_dir(dc_fs, Path(dc_args.path))
    /\ dc_pc' = "raised"
    /\ dc_ret' = "NotADirectoryError"
    /\ UNCHANGED <<dc_args, dc_fs, dc_fs0, perm_vars, size_vars, ls_vars, temp_vars, pf_vars>>

\* path.is_dir()
DirCopySourceOk ==
    /\ dc_pc = "call"
    /\ is_dir(dc_fs, Path(dc_args.path))
    /\ dc_pc' = "checked"
    /\ UNCHANGED <<dc_args, dc_fs, dc_fs0, dc_ret, perm_vars, size_vars, ls_vars, temp_vars, pf_vars>>

\* new_path.exists() and not overwrite: raise FileExistsError
DirCopyExistsRaise ==
    /\ dc_pc = "checked"
    /\ exists(dc_fs, Path(dc_args.new_path))
    /\ ~dc_args.overwrite
    /\ dc_pc' = "raised"
    /\ dc_ret' = "FileExistsError"
    /\ UNCHANGED <<dc_args, dc_fs, dc_fs0, perm_vars, size_vars, ls_vars, temp_vars, pf_vars>>

\* new_path.exists() and overwrite: shutil.rmtree(new_path)
DirCopyRmtree ==
    /\ dc_pc = "checked"
    /\ exists(dc_fs, Path(dc_args.new_path))
    /\ dc_args.overwrite
    /\ LET done == rmtree(dc_fs, Path(dc_args.new_path))
       IN  /\ dc_fs' = done.fs
           /\ dc_pc' = IF done.exc = "" THEN "copy" ELSE "raised"
           /\ dc_ret' = IF done.exc = "" THEN dc_ret ELSE done.exc
    /\ UNCHANGED <<dc_args, dc_fs0, perm_vars, size_vars, ls_vars, temp_vars, pf_vars>>

\* not new_path.exists()
DirCopyFree ==
    /\ dc_pc = "checked"
    /\ ~exists(dc_fs, Path(dc_args.new_path))
    /\ dc_pc' = "copy"
    /\ UNCHANGED <<dc_args, dc_fs, dc_fs0, dc_ret, perm_vars, size_vars, ls_vars, temp_vars, pf_vars>>

\* shutil.copytree(path, new_path); return new_path
DirCopyCopytree ==
    /\ dc_pc = "copy"
    /\ LET done == copytree(dc_fs, Path(dc_args.path), Path(dc_args.new_path))
       IN  /\ dc_fs' = done.fs
           /\ dc_pc' = IF done.exc = "" THEN "returned" ELSE "raised"
           /\ dc_ret' = IF done.exc = "" THEN Path(dc_args.new_path) ELSE done.exc
    /\ UNCHANGED <<dc_args, dc_fs0, perm_vars, size_vars, ls_vars, temp_vars, pf_vars>>

DirCopyNext ==
    \/ DirCopySourceRaise \/ DirCopySourceOk
    \/ DirCopyExistsRaise \/ DirCopyRmtree \/ DirCopyFree
    \/ DirCopyCopytree

SpecDirCopy == DirCopyInit /\ [][DirCopyNext]_vars

----------------------------------------------------------------------------
(* The permission semantics the claims are stated against: a mode as the   *)
(* set of permissions each category holds.                                 *)

Categories == {"u", "g", "o"}

CategoryValue(P) ==
    (IF "r" \in P THEN 4 ELSE 0) + (IF "w" \in P THEN 2 ELSE 0)
        + (IF "x" \in P THEN 1 ELSE 0)

ModeValue(m) ==
    64 * CategoryValue(m["u"]) + 8 * CategoryValue(m["g"]) + CategoryValue(m["o"])

PermsOfDigit(d) ==
    (IF (d \div 4) % 2 = 1 THEN {"r"} ELSE {})
        \cup (IF (d \div 2) % 2 = 1 THEN {"w"} ELSE {})
        \cup (IF d % 2 = 1 THEN {"x"} ELSE {})

ModeOf(n) ==
    [c \in Categories |->
        PermsOfDigit(CASE c = "u" -> (n \div 64) % 8
                       [] c = "g" -> (n \div 8) % 8
                       [] c = "o" -> n % 8)]

EmptyMode == [c \in Categories |-> {}]

\* The clause is, in its entirety, of the form [ugoa]*[+=-][rwx]*.
InGrammar(c) ==
    \E i \in 1..Len(c) :
        /\ c[i] \in ActionLetters
        /\ \A j \in 1..(i - 1) : c[j] \in WhoLetters
        /\ \A j \in (i + 1)..Len(c) : c[j] \in PermLetters

ActionIndex(c) == CHOOSE i \in 1..Len(c) : c[i] \in ActionLetters

ClauseAction(c) == c[ActionIndex(c)]

ClauseWho(c) == {c[j] : j \in 1..(ActionIndex(c) - 1)}

ClausePerms(c) == {c[j] : j \in (ActionIndex(c) + 1)..Len(c)}

\* Empty who and the alias a select all three categories.
SelectedCategories(c) ==
    IF ClauseWho(c) = {} \/ "a" \in ClauseWho(c) THEN Categories ELSE ClauseWho(c)

\* '+' sets and '-' clears the selected bits; '=' gives every selected
\* category exactly the requested permissions.
RefClause(m, c) ==
    [cat \in Categories |->
        IF cat \notin SelectedCategories(c) THEN m[cat]
        ELSE CASE ClauseAction(c) = "+" -> m[cat] \cup ClausePerms(c)
               [] ClauseAction(c) = "-" -> m[cat] \ ClausePerms(c)
               [] ClauseAction(c) = "=" -> ClausePerms(c)]

RECURSIVE RefFold(_, _)
RefFold(m, cs) ==
    IF cs = <<>> THEN m ELSE RefFold(RefClause(m, Head(cs)), Tail(cs))

ClausesOf(text) == split(text)

AllInGrammar(text) ==
    LET cs == ClausesOf(text) IN \A i \in 1..Len(cs) : InGrammar(cs[i])

OnlyPlusMinus(text) ==
    LET cs == ClausesOf(text)
    IN  \A i \in 1..Len(cs) : InGrammar(cs[i]) /\ ClauseAction(cs[i]) \in {"+", "-"}

Returned(text, mode) ==
    /\ perm_pc = "returned"
    /\ symbolic = text
    /\ perm_ret = mode

----------------------------------------------------------------------------
(* Claims about symbolic_to_octal.                                         *)

\* C1: for an expression whose clauses all use '+' or '-', the returned mode
\* is the left-to-right fold from 0 in which '+' sets and '-' clears exactly
\* the selected (category, permission) bits; later clauses win, as in the
\* examples u+rwx,g+rx,o+r = 0o754, a+rwx = 0o777, a+rwx,a-rwx = 0,
\* u+rwx,u-w = 0o500 and u-w,u+rwx = 0o700.
C1_PlusMinusFold ==
    /\ (perm_pc = "returned" /\ OnlyPlusMinus(symbolic))
          => perm_ret = ModeValue(RefFold(EmptyMode, ClausesOf(symbolic)))
    /\ (perm_pc = "returned" /\ symbolic = <<"u", "+", "r", "w", "x", ",", "g", "+", "r", "x", ",", "o", "+", "r">>) => perm_ret = 492
    /\ (perm_pc = "returned" /\ symbolic = <<"a", "+", "r", "w", "x">>) => perm_ret = 511
    /\ (perm_pc = "returned" /\ symbolic = <<"a", "+", "r", "w", "x", ",", "a", "-", "r", "w", "x">>) => perm_ret = 0
    /\ (perm_pc = "returned" /\ symbolic = <<"u", "+", "r", "w", "x", ",", "u", "-", "w">>) => perm_ret = 320
    /\ (perm_pc = "returned" /\ symbolic = <<"u", "-", "w", ",", "u", "+", "r", "w", "x">>) => perm_ret = 448
    /\ (perm_pc = "loop" /\ operations = <<>> /\ OnlyPlusMinus(symbolic))
          => perm = ModeValue(RefFold(EmptyMode, ClausesOf(symbolic)))

\* C1 witness: u+rwx,u-w has returned 0o500, the later '-' having won.
C1_Witness == Returned(<<"u", "+", "r", "w", "x", ",", "u", "-", "w">>, 320)

\* C2 (as claimed): a clause W=P, W a non-empty text over u,g,o, leaves every
\* category named in W with exactly the permissions of P and every other
\* category unchanged.
C2_AssignNamedCategories ==
    [][(/\ perm_pc = "loop"
        /\ operations # <<>>
        /\ InGrammar(Head(operations))
        /\ ClauseAction(Head(operations)) = "="
        /\ ClauseWho(Head(operations)) # {}
        /\ ClauseWho(Head(operations)) \subseteq Categories
        /\ operations' = Tail(operations))
       => perm' = ModeValue(RefClause(ModeOf(perm), Head(operations)))]_vars

\* C3 (as claimed): a clause =P or a=P gives each of the three categories
\* exactly the permissions of P, whatever earlier clauses had set.
C3_AssignAll ==
    [][(/\ perm_pc = "loop"
        /\ operations # <<>>
        /\ InGrammar(Head(operations))
        /\ ClauseAction(Head(operations)) = "="
        /\ ClauseWho(Head(operations)) \in {{}, {"a"}}
        /\ operations' = Tail(operations))
       => perm' = ModeValue([c \in Categories |-> ClausePerms(Head(operations))])]_vars

EndsWithAssignAllRead(text) ==
    \/ text = AssignAllRead
    \/ /\ Len(text) > Len(AssignAllRead)
       /\ DropN(text, Len(text) - Len(AssignAllRead) - 1) = <<",">> \o AssignAllRead

\* C4: an accepted expression that ends with the clauses u=r,g=r,o=r returns
\* exactly 0o444, whatever the clauses before them had set.
C4_AssignAllReadIs444 ==
    (perm_pc = "returned" /\ EndsWithAssignAllRead(symbolic)) => perm_ret = 292

\* C4 witness: a+rw,u=r,g=r,o=r has returned 0o444: the write bits of the
\* first clause did not survive.
C4_Witness == Returned(<<"a", "+", "r", "w", ",", "u", "=", "r", ",", "g", "=", "r", ",", "o", "=", "r">>, 292)

\* C5: the accumulator after every clause, and the returned mode, lie within
\* 0..0o777: no bit outside the nine permission bits is ever set.
C5_NineBitsOnly ==
    /\ perm >= 0
    /\ perm \div 512 = 0
    /\ perm_pc = "returned" => (perm_ret >= 0 /\ perm_ret \div 512 = 0)

\* C5 witness: all nine bits are set through the alias and the empty who.
C5_Witness == Returned(<<"a", "+", "r", "w", ",", "+", "x">>, 511)

\* A clause that is empty or starts with a letter outside u,g,o,a.
Letters == {"u", "g", "o", "a", "r", "w", "x", "z", "s"}

EmptyOrUnknownCategory(c) ==
    \/ c = <<>>
    \/ c[1] \in Letters \ WhoLetters

HasEmptyOrUnknownCategory(cs) ==
    \E i \in 1..Len(cs) : EmptyOrUnknownCategory(cs[i])

\* C6: an expression with an empty clause (the empty text, a trailing
\* comma) or a clause starting with a letter outside u,g,o,a never returns a
\* mode: until it has raised ValueError such a clause is still ahead of the
\* loop, also when the clauses before it were valid.
C6_InvalidExpressionRaises ==
    /\ (\/ perm_pc = "returned"
        \/ perm_pc = "loop" /\ ~HasEmptyOrUnknownCategory(operations))
          => ~HasEmptyOrUnknownCategory(ClausesOf(symbolic))
    /\ perm_pc = "raised" => perm_ret = "ValueError"

\* C6 witness: u+x, (a trailing comma) has raised after applying u+x.
C6_Witness ==
    /\ perm_pc = "raised"
    /\ symbolic = <<"u", "+", "x", ",">>
    /\ perm = 64
    /\ operations = <<<<>>>>

\* C7 (as claimed): an expression is accepted only if every clause, blanks
\* around it aside, is entirely of the form [ugoa]*[+=-][rwx]*.
C7_WholeClauseMustMatch ==
    perm_pc = "returned"
        => \A i \in 1..Len(ClausesOf(symbolic)) : InGrammar(strip(ClausesOf(symbolic)[i]))

----------------------------------------------------------------------------
(* Claims about human_to_bytes.                                            *)

LeadingNumber(t) == TakeWhile(t, Digits)

SuffixOf(t) == DropN(t, Len(LeadingNumber(t)))

\* The value of a decimal numeral: its last digit plus ten times the rest.
RECURSIVE DecimalValue(_)
DecimalValue(num) ==
    IF num = <<>> THEN 0
    ELSE DigitValue(num[Len(num)]) + 10 * DecimalValue(SubSeq(num, 1, Len(num) - 1))

LowerCase(c) ==
    CASE c = "B" -> "b" [] c = "K" -> "k" [] c = "M" -> "m" [] c = "G" -> "g"

\* Every spelling of the unit in upper and lower case letters.
AnyCase(unit) ==
    {t \in [1..Len(unit) -> {"B", "K", "M", "G", "b", "k", "m", "g"}] :
        \A i \in 1..Len(unit) : t[i] \in {unit[i], LowerCase(unit[i])}}

UnitNames ==
    {<<>>, <<"B">>, <<"K">>, <<"K", "B">>, <<"M">>, <<"M", "B">>, <<"G">>, <<"G", "B">>}

Multiplier(unit) ==
    CASE unit \in {<<>>, <<"B">>} -> 1
      [] unit \in {<<"K">>, <<"K", "B">>} -> 1024
      [] unit \in {<<"M">>, <<"M", "B">>} -> 1048576
      [] unit \in {<<"G">>, <<"G", "B">>} -> 1073741824

IsUnitSpelling(suffix) == \E unit \in UnitNames : suffix \in AnyCase(unit)

SizeReturned(text, bytes) ==
    /\ size_pc = "returned"
    /\ size_text = text
    /\ size_ret = bytes

\* C8: a decimal integer n followed by one of the units '', B, K, KB, M, MB,
\* G, GB in any letter case is accepted and gives n times the unit's
\* multiplier; 5MB gives 5242880 and 10 gives 10.
C8_NumberTimesUnit ==
    /\ \A unit \in UnitNames :
          (LeadingNumber(size_text) # <<>> /\ SuffixOf(size_text) \in AnyCase(unit))
             => /\ size_pc # "raised"
                /\ size_pc = "returned"
                      => size_ret = DecimalValue(LeadingNumber(size_text)) * Multiplier(unit)
    /\ (size_pc = "returned" /\ size_text = <<"5", "M", "B">>) => size_ret = 5242880
    /\ (size_pc = "returned" /\ size_text = <<"1", "0">>) => size_ret = 10

\* C8 witness: 15kB, a unit in mixed case, has returned 15 * 1024.
C8_Witness == SizeReturned(<<"1", "5", "k", "B">>, 15360)

\* C9 (as claimed): the call fails exactly when the text does not start with a
\* decimal integer, and a number followed by a non-empty suffix that is no
\* spelling of a unit returns the number itself.
C9_UnknownSuffixIsOne ==
    size_pc \in {"returned", "raised"}
        => /\ size_pc = "raised" <=> LeadingNumber(size_text) = <<>>
           /\ (/\ LeadingNumber(size_text) # <<>>
               /\ SuffixOf(size_text) # <<>>
               /\ ~IsUnitSpelling(SuffixOf(size_text)))
                 => /\ size_pc = "returned"
                    /\ size_ret = DecimalValue(LeadingNumber(size_text))

----------------------------------------------------------------------------
(* Claims about dir_ls.                                                    *)

Visible(e, a) == a.all \/ Head(name(e)) # "."

\* The kind of the entry is the one the type filter names.
KindIs(e, type_filter) ==
    CASE type_filter = "file" -> e.is_file
      [] type_filter = "directory" -> e.is_dir
      [] type_filter = "symlink" -> e.is_symlink

\* C10 (as claimed): with type_filter file, directory or symlink the call
\* never fails because of the kind of an entry, and without glob and regexp
\* it returns exactly the visible entries of that kind.
C10_TypeFilterKeepsOrDrops ==
    ls_args.type_filter \in {"file", "directory", "symlink"}
        => /\ ~(ls_pc = "raised" /\ ls_ret.cause = "ValueError")
           /\ (ls_pc = "returned" /\ ls_root = "dir"
                  /\ ls_args.glob = <<>> /\ ls_args.regexp = <<>>)
                 => {ls_ret.list[i] : i \in 1..Len(ls_ret.list)}
                      = {str(e) : e \in {x \in iterator(ls_fs, ls_args.recurse) :
                                            /\ Visible(x, ls_args)
                                            /\ KindIs(x, ls_args.type_filter)}}

\* C11 (as claimed): with a type_filter outside any, file, directory and
\* symlink the call fails with the invalid-filter error (ValueError) before
\* the root is looked at: it never enters the loop, never returns a list and
\* never ends with another error, whatever the root is.
C11_BogusFilterFailsFirst ==
    ls_args.type_filter = "bogus"
        => /\ ls_pc \notin {"loop", "returned"}
           /\ ls_pc = "raised" => ls_ret.exc = "ValueError"

\* C12: the root is decided on before anything is enumerated. A missing root
\* ends the call with [] when fail is false and with FileNotFoundError when
\* fail is true; a root that is not a directory ends it with
\* NotADirectoryError whatever fail is; in these cases the loop is never
\* entered and no entry is enumerated or collected.
C12_RootDecidedFirst ==
    ls_root \in {"missing", "file"}
        => /\ ls_pc \in {"call", "returned", "raised"}
           /\ ls_todo = {}
           /\ ls_results = <<>>
           /\ ls_pc = "returned"
                 => ls_root = "missing" /\ ~ls_args.fail /\ ls_ret = [NoResult EXCEPT !.list = <<>>]
           /\ ls_pc = "raised"
                 => ls_ret = [NoResult EXCEPT !.exc =
                                IF ls_root = "missing" THEN "FileNotFoundError"
                                                       ELSE "NotADirectoryError"]
           /\ (ls_pc = "raised" /\ ls_root = "missing") => ls_args.fail

\* A root that is a regular file, with fail false, has raised NotADirectoryError.
C12_Witness ==
    /\ ls_root = "file"
    /\ ~ls_args.fail
    /\ ls_pc = "raised"
    /\ ls_ret.exc = "NotADirectoryError"

\* The code point of each character the paths of the model are written with.
ord(c) ==
    CASE c = "." -> 46 [] c = "/" -> 47
      [] c = "a" -> 97 [] c = "b" -> 98 [] c = "c" -> 99 [] c = "d" -> 100
      [] c = "g" -> 103 [] c = "h" -> 104 [] c = "l" -> 108
      [] c = "s" -> 115 [] c = "t" -> 116

\* s comes strictly before t in lexicographic order of code points.
RECURSIVE LexLess(_, _)
LexLess(s, t) ==
    IF t = <<>> THEN FALSE
    ELSE IF s = <<>> THEN TRUE
    ELSE IF Head(s) = Head(t) THEN LexLess(Tail(s), Tail(t))
    ELSE ord(Head(s)) < ord(Head(t))

\* C13 (as claimed): the list a call returns is in lexicographic order of the
\* full path strings, whatever order the iterator yielded the entries in.
C13_ResultsSorted ==
    ls_pc = "returned"
        => \A i \in 1..Len(ls_ret.list) : \A j \in 1..Len(ls_ret.list) :
              i < j => LexLess(ls_ret.list[i], ls_ret.list[j])

\* The leaf name of the entry starts with '.'.
Hidden(e) == Head(name(e)) = "."

\* The paths of the list the call returned.
Listed == {ls_ret.list[i] : i \in 1..Len(ls_ret.list)}

\* Two entries are alike to every filter but the hidden one: same kind, and
\* the glob and the regexp of the call answer the same on both.
AlikeButHidden(e, x, a) ==
    /\ e.is_file = x.is_file /\ e.is_dir = x.is_dir /\ e.is_symlink = x.is_symlink
    /\ (a.glob # <<>> => (path_match(e, a.glob) <=> path_match(x, a.glob)))
    /\ (a.regexp # <<>> => (re_search(a.regexp, str(e)) <=> re_search(a.regexp, str(x))))

\* C14: with all false no returned entry has a leaf name starting with '.',
\* whatever recurse, type_filter, glob, regexp and invert are, and a hidden
\* entry never reaches the type filter (a directory with hidden entries only
\* cannot fail on it); an entry with a visible leaf name below a hidden
\* directory is not hidden. With all true a hidden entry is kept exactly when
\* a visible entry that is alike to the other filters is kept.
C14_HiddenFilter ==
    /\ (ls_pc = "returned" /\ ~ls_args.all)
          => \A e \in ls_fs : Hidden(e) => str(e) \notin Listed
    /\ (ls_pc = "raised" /\ ls_root = "dir" /\ ~ls_args.all)
          => \E e \in iterator(ls_fs, ls_args.recurse) : ~Hidden(e)
    /\ (ls_pc = "returned" /\ ~ls_args.all /\ ls_args.type_filter = "any"
            /\ ls_args.glob = <<>> /\ ls_args.regexp = <<>>)
          => \A e \in iterator(ls_fs, ls_args.recurse) : ~Hidden(e) => str(e) \in Listed
    /\ (ls_pc = "returned" /\ ls_args.all)
          => \A e \in iterator(ls_fs, ls_args.recurse) :
                \A x \in iterator(ls_fs, ls_args.recurse) :
                   (Hidden(e) /\ ~Hidden(x) /\ AlikeButHidden(e, x, ls_args))
                      => (str(e) \in Listed <=> str(x) \in Listed)

\* A recursive call with all false and an inverted glob has returned the
\* visible file below a hidden directory and dropped the hidden directory.
C14_Witness ==
    /\ ls_pc = "returned"
    /\ ~ls_args.all /\ ls_args.recurse /\ ls_args.invert /\ ls_args.glob # <<>>
    /\ \E e \in ls_fs : \E x \in ls_fs :
          /\ Hidden(e) /\ e.is_dir /\ str(e) \notin Listed
          /\ ~Hidden(x) /\ x.rel = e.rel \o <<"/">> \o name(x) /\ str(x) \in Listed

\* The glob matcher passes: not supplied, or (glob matches) differs from invert.
GlobPasses(e, a) == a.glob = <<>> \/ (path_match(e, a.glob) # a.invert)

\* The regex matcher passes: not supplied, or (search succeeds) differs from invert.
RegexpPasses(e, a) == a.regexp = <<>> \/ (re_search(a.regexp, str(e)) # a.invert)

\* C15: an entry that passed the hidden and the type filter (type_filter any)
\* is in the returned list, once, iff it passes every active matcher: the
\* glob matcher passes iff (glob matches) differs from invert, the regex
\* matcher iff (unanchored search on the path string succeeds) differs from
\* invert, and a matcher that is not supplied excludes nothing.
C15_MatchersAndInvert ==
    (ls_pc = "returned" /\ ls_root = "dir" /\ ls_args.type_filter = "any")
        => /\ Listed = {str(e) : e \in {x \in iterator(ls_fs, ls_args.recurse) :
                                           /\ Visible(x, ls_args)
                                           /\ GlobPasses(x, ls_args)
                                           /\ RegexpPasses(x, ls_args)}}
           /\ Cardinality(Listed) = Len(ls_ret.list)

\* With glob and regexp both given and invert true, a call has returned an
\* entry that matches neither and dropped one that matches only one of them.
C15_Witness ==
    /\ ls_pc = "returned"
    /\ ls_args.type_filter = "any"
    /\ ls_args.invert /\ ls_args.glob # <<>> /\ ls_args.regexp # <<>>
    /\ \E e \in ls_fs : \E x \in ls_fs :
          /\ ~path_match(e, ls_args.glob) /\ ~re_search(ls_args.regexp, str(e))
          /\ str(e) \in Listed
          /\ path_match(x, ls_args.glob) /\ ~re_search(ls_args.regexp, str(x))
          /\ Visible(x, ls_args) /\ str(x) \notin Listed

\* The root is an existing directory.
RootIsDirectory == ls_root \in {"dir", "dir_noperm", "dir_ioerror"}

C17_SameCallSameResult ==
    (ls_call = 2 /\ ls_pc \in {"returned", "raised"})
        => /\ ls_ret.exc = ls_prev.exc
           /\ ls_ret.list = ls_prev.list

\* Everything of the temp stack's world but the stack and the last call.
TempRest == <<temp_disk, temp_locked, temp_pc, temp_start, temp_disk0, temp_log>>

\* A step that is a push: one path, as Path makes it, is put on top and returned.
IsPush ==
    /\ \E text \in PathTexts :
          /\ temp_stack' = temp_stack \o <<Path(text)>>
          /\ temp_ret' = [op |-> "push", value |-> Path(text)]
    /\ UNCHANGED TempRest

\* A step that is a pop: the top path is removed and returned and the paths
\* below it stay as they are; on the empty stack None is returned.
IsPop ==
    /\ temp_ret'.op = "pop"
    /\ IF temp_stack = <<>>
       THEN temp_stack' = <<>> /\ temp_ret'.value = NonePath
       ELSE /\ temp_stack = temp_stack' \o <<temp_ret'.value>>
            /\ temp_ret'.value # NonePath
    /\ UNCHANGED TempRest

\* C18: between calls of cleanup_temp_files every step of the temp stack is
\* a push, which adds exactly one path on top (also one that is on the stack
\* already) and changes nothing else, or a pop, which removes and returns
\* exactly the most recently pushed path not yet popped and leaves the rest
\* as it is, and on the empty stack returns None and leaves it empty.
C18_StackIsLifo ==
    [][(temp_pc = "ready" /\ temp_pc' = "ready") => (IsPush \/ IsPop)]_vars

\* After two pushes of different paths and one pop, the pop has returned the
\* second path and the first is what the stack holds.
C18_Witness ==
    /\ temp_pc = "ready"
    /\ temp_ret.op = "pop"
    /\ Len(temp_stack) = 1
    /\ temp_ret.value \in Paths
    /\ temp_ret.value # temp_stack[1]

\* cleanup_temp_files is running; it has returned and nothing was called since.
InCleanup == temp_pc = "cleanup"
Cleaned == temp_pc = "ready" /\ temp_ret.op = "cleanup"

\* The paths cleanup_temp_files has popped so far, in the order it popped them.
LogPaths == [i \in 1..Len(temp_log) |-> temp_log[i].path]

\* The path was deleted by one of the first n attempts of this cleanup.
DeletedIn(n, path) ==
    \E j \in 1..n : temp_log[j].path = path /\ temp_log[j].outcome \in {"unlink", "rmtree"}

\* What an attempt has to do to a path of the given kind.
Expected(kind, locked) ==
    CASE kind \in {"file", "symlink"} -> IF locked THEN "failed" ELSE "unlink"
      [] kind = "dir" -> IF locked THEN "failed" ELSE "rmtree"
      [] kind = "missing" -> "skip"

\* During and after a cleanup: the paths popped so far are the top of the
\* stack it started with, each once, last pushed first; each was handled as
\* its kind at that moment demands; the filesystem differs from the one at
\* the start by exactly the deleted paths; a cleanup that started with the
\* empty stack has done nothing; a finished cleanup has left the stack empty.
CleanupInv ==
    (InCleanup \/ Cleaned)
        => /\ temp_start = temp_stack \o Reverse(LogPaths)
           /\ \A i \in 1..Len(temp_log) :
                 temp_log[i].outcome =
                     Expected(IF DeletedIn(i - 1, temp_log[i].path)
                                 THEN "missing" ELSE temp_disk0[temp_log[i].path],
                              temp_log[i].path \in temp_locked)
           /\ temp_disk = [path \in Paths |->
                              IF DeletedIn(Len(temp_log), path)
                                 THEN "missing" ELSE temp_disk0[path]]
           /\ temp_start = <<>> => (temp_log = <<>> /\ temp_disk = temp_disk0)
           /\ Cleaned => temp_stack = <<>>

PassesMatchers(p) == GlobPasses(p, pf_args) /\ RegexpPasses(p, pf_args)

\* C20 (as claimed): path_filter returns, in their input order, exactly the
\* paths that pass every active matcher, each matcher negated on its own
\* when invert is true: with glob and regexp both given a path is kept only
\* if it passes both.
C20_PathFilterLikeDirLs ==
    pf_pc = "returned" => pf_ret = SelectSeq(pf_paths, PassesMatchers)

\* What lies at and below p: each node with its path from p on, its kind
\* and its data.
Contents(fs, p) ==
    {[rel |-> SubSeq(n.path, Len(p) + 1, Len(n.path)), kind |-> n.kind, data |-> n.data] :
        n \in {m \in fs : IsUnder(m.path, p)}}

\* C21 (as claimed): when a call of dir_copy on a source directory has
\* returned or raised, the source directory exists with the contents it had
\* at the call, whatever new_path and overwrite are; and when new_path
\* existed and overwrite is false, the call has raised FileExistsError and
\* the filesystem is as it was.
C21_SourceNeverDestroyed ==
    (dc_pc \in {"returned", "raised"} /\ is_dir(dc_fs0, Path(dc_args.path)))
        => /\ is_dir(dc_fs, Path(dc_args.path))
           /\ Contents(dc_fs, Path(dc_args.path)) = Contents(dc_fs0, Path(dc_args.path))
           /\ (exists(dc_fs0, Path(dc_args.new_path)) /\ ~dc_args.overwrite)
                 => (dc_pc = "raised" /\ dc_ret = "FileExistsError" /\ dc_fs = dc_fs0)

====
